---- MODULE Spec2Model ----
(***************************************************************************)
(* A model of the payment / order-confirmation service: the three POST     *)
(* handlers of src/index.js and of the second server file                  *)
(* (src/unnamed/part_000), the module-level construction of the gateway    *)
(* and e-mail clients, and the JavaScript value semantics the handlers     *)
(* rely on (truthiness, ToNumber, parseFloat, IEEE-754 binary64            *)
(* multiplication and Math.round, string concatenation, strict equality).  *)
(***************************************************************************)
EXTENDS Integers, Sequences, FiniteSets, TLC

(***************************************************************************)
(* JavaScript values.  Every value is a record [t, v]: t is the typeof     *)
(* tag, v the payload.  Strings are sequences of one-character strings so  *)
(* that parsing and concatenation are computed, not assumed.               *)
(***************************************************************************)
Undef == [t |-> "undefined", v |-> <<>>]

Null == [t |-> "null", v |-> <<>>]

Bool(b) == [t |-> "boolean", v |-> b]

Str(s) == [t |-> "string", v |-> s]

Num(d) == [t |-> "number", v |-> d]

Obj(o) == [t |-> "object", v |-> o]

\* Property read o.k on an object value: undefined when the key is absent.
Get(o, k) == IF o.t = "object" /\ k \in DOMAIN o.v THEN o.v[k] ELSE Undef

\* Reading a property of undefined or null throws a TypeError.
ThrowsOnRead(o) == o.t \in {"undefined", "null"}

(***************************************************************************)
(* IEEE-754 binary64 numbers.  A finite double is kept exactly, as sign,   *)
(* integer part and FracBits binary fraction digits; the model's amounts   *)
(* lie in [2^-19, 2^24), where every double and every exact product by 100 *)
(* fits this fixed-point form.                                             *)
(***************************************************************************)
MantissaBits == 53

\* The fraction is held in three limbs of LimbBits digits.
LimbBits == 24

LimbSize == 2 ^ LimbBits

FracBits == 3 * LimbBits

Zeros == [j \in 1..FracBits |-> 0]

Fin(s, i, f) == [k |-> "fin", s |-> s, i |-> i, f |-> f]

NaN == [k |-> "nan", s |-> 1, i |-> 0, f |-> Zeros]

Infinity == [k |-> "inf", s |-> 1, i |-> 0, f |-> Zeros]

IntD(n) == Fin(IF n < 0 THEN -1 ELSE 1, IF n < 0 THEN -n ELSE n, Zeros)

IsZero(d) == d.k = "fin" /\ d.i = 0 /\ d.f = Zeros

IsInteger(d) == d.k = "fin" /\ d.f = Zeros

RECURSIVE BitLen(_)
BitLen(n) == IF n = 0 THEN 0 ELSE 1 + BitLen(n \div 2)

\* Index of the first 1 of a bit sequence; 0 when there is none.
FirstOne(f) ==
    IF \A j \in 1..Len(f) : f[j] = 0 THEN 0
    ELSE CHOOSE j \in 1..Len(f) : f[j] = 1 /\ \A h \in 1..(j - 1) : f[h] = 0

\* Add one unit in the last kept place (fraction position keep; 0: the units):
\* z is the last 0 at or before it, 0 when the carry reaches the integer part.
AddUlpAt(i, f, z) ==
    IF z = 0 THEN [i |-> i + 1, f |-> Zeros]
    ELSE [i |-> i,
          f |-> [j \in 1..FracBits |->
                   IF j < z THEN f[j] ELSE IF j = z THEN 1 ELSE 0]]

\* Index of the last 0 among f[1..keep]; 0 when there is none.
LastZero(f, keep) ==
    IF \A j \in 1..keep : f[j] = 1 THEN 0
    ELSE CHOOSE j \in 1..keep : f[j] = 0 /\ \A h \in (j + 1)..keep : f[h] = 1

AddUlp(i, f, keep) == AddUlpAt(i, f, LastZero(f, keep))

\* Round i + 0.f to keep fraction digits, ties to even.
RoundAt(i, f, sticky, keep) ==
    IF keep >= FracBits THEN [i |-> i, f |-> f]
    ELSE IF /\ f[keep + 1] = 1
            /\ \/ sticky
               \/ \E j \in (keep + 2)..FracBits : f[j] = 1
               \/ (IF keep = 0 THEN i % 2 ELSE f[keep]) = 1
    THEN AddUlp(i, [j \in 1..FracBits |-> IF j <= keep THEN f[j] ELSE 0], keep)
    ELSE [i |-> i, f |-> [j \in 1..FracBits |-> IF j <= keep THEN f[j] ELSE 0]]

\* Round an exact non-negative value i + 0.f (+ sticky: a nonzero tail below
\* the last fraction digit) to 53 significant bits, ties to even.
RoundToDouble(i, f, sticky) ==
    IF i > 0 THEN RoundAt(i, f, sticky, MantissaBits - BitLen(i))
    ELSE IF FirstOne(f) = 0 THEN [i |-> i, f |-> f]
    ELSE RoundAt(i, f, sticky, FirstOne(f) + MantissaBits - 1)

\* 2^n modulo den, by repeated squaring.
RECURSIVE PowMod2(_, _)
PowMod2(n, den) ==
    IF n = 0 THEN 1 % den
    ELSE IF n % 2 = 1 THEN (2 * PowMod2(n - 1, den)) % den
    ELSE (PowMod2(n \div 2, den) * PowMod2(n \div 2, den)) % den

\* Binary expansion of r/den (0 <= r < den): the first n fraction digits.  Digit
\* j is set when twice the remainder left after j - 1 digits reaches den.
BinFrac(r, den, n) ==
    [j \in 1..n |-> IF 2 * ((r * PowMod2(j - 1, den)) % den) >= den THEN 1 ELSE 0]

\* The remainder left after n digits.
BinRem(r, den, n) == (r * PowMod2(n, den)) % den

DigitVal(c) ==
    CASE c = "0" -> 0 [] c = "1" -> 1 [] c = "2" -> 2 [] c = "3" -> 3
      [] c = "4" -> 4 [] c = "5" -> 5 [] c = "6" -> 6 [] c = "7" -> 7
      [] c = "8" -> 8 [] c = "9" -> 9 [] c \in {"a", "A"} -> 10
      [] c \in {"b", "B"} -> 11 [] c \in {"c", "C"} -> 12
      [] c \in {"d", "D"} -> 13 [] c \in {"e", "E"} -> 14
      [] c \in {"f", "F"} -> 15

Digits == {"0", "1", "2", "3", "4", "5", "6", "7", "8", "9"}

HexDigits == Digits \cup {"a", "b", "c", "d", "e", "f", "A", "B", "C", "D", "E", "F"}

RECURSIVE DigitsToNat(_, _)
DigitsToNat(s, base) ==
    IF s = <<>> THEN 0
    ELSE DigitsToNat(SubSeq(s, 1, Len(s) - 1), base) * base + DigitVal(s[Len(s)])

RECURSIVE Pow(_, _)
Pow(b, n) == IF n = 0 THEN 1 ELSE b * Pow(b, n - 1)

\* The double nearest to ip + r/den.
RationalToDouble(neg, ip, r, den) ==
    LET x == RoundToDouble(ip, BinFrac(r, den, FracBits),
                           BinRem(r, den, FracBits) # 0)
    IN Fin(IF neg THEN -1 ELSE 1, x.i, x.f)

ScaledToDouble(neg, n, scale) ==
    IF scale >= 0 THEN RationalToDouble(neg, n * Pow(10, scale), 0, 1)
    ELSE RationalToDouble(neg, n \div Pow(10, -scale), n % Pow(10, -scale),
                          Pow(10, -scale))

\* The double nearest to the decimal literal  int.frac e exp  (correct rounding,
\* as JSON.parse, Number() and parseFloat() convert a decimal literal).
DecimalToDouble(neg, int, frac, exp) ==
    ScaledToDouble(neg, DigitsToNat(int \o frac, 10), exp - Len(frac))

\* The fraction digits f[lo..lo+LimbBits-1] read as one integer (a limb).
RECURSIVE LimbValue(_, _, _)
LimbValue(f, lo, n) ==
    IF n = 0 THEN 0 ELSE 2 * LimbValue(f, lo, n - 1) + f[lo + n - 1]

Limb(f, h) == LimbValue(f, ((h - 1) * LimbBits) + 1, LimbBits)

\* Fraction digit j of the three limbs l.
LimbBit(l, j) ==
    (l[((j - 1) \div LimbBits) + 1] \div (2 ^ (LimbBits - 1 - ((j - 1) % LimbBits)))) % 2

\* The limb products t with their carries propagated, lowest limb first.
CarryLimbs(i, t1, t2, t3) ==
    [i |-> i + ((t1 + ((t2 + (t3 \div LimbSize)) \div LimbSize)) \div LimbSize),
     f |-> [j \in 1..FracBits |->
              LimbBit(<<(t1 + ((t2 + (t3 \div LimbSize)) \div LimbSize)) % LimbSize,
                        (t2 + (t3 \div LimbSize)) % LimbSize,
                        t3 % LimbSize>>, j)]]

\* The exact product of a finite double's magnitude by the small integer m.
ExactTimes(d, m) ==
    CarryLimbs(d.i * m, Limb(d.f, 1) * m, Limb(d.f, 2) * m, Limb(d.f, 3) * m)

\* JavaScript  d * 100 : the exact product rounded to the nearest double.
RoundProduct(s, p) ==
    LET x == RoundToDouble(p.i, p.f, FALSE) IN Fin(s, x.i, x.f)

Times100(d) == IF d.k # "fin" THEN d ELSE RoundProduct(d.s, ExactTimes(d, 100))

\* Whether the fraction f is > 1/2, = 1/2.
FracAboveHalf(f) == f[1] = 1 /\ \E j \in 2..FracBits : f[j] = 1

FracIsHalf(f) == f[1] = 1 /\ \A j \in 2..FracBits : f[j] = 0

\* Math.round: the nearest integer, a tie going towards +Infinity.
MathRound(d) ==
    IF d.k # "fin" THEN d
    ELSE IF d.s = 1 THEN Fin(1, d.i + d.f[1], Zeros)
    ELSE IF FracAboveHalf(d.f) THEN Fin(-1, d.i + 1, Zeros)
    ELSE Fin(IF d.i = 0 THEN 1 ELSE -1, d.i, Zeros)

(***************************************************************************)
(* Strings and the abstract operations ToString, ToNumber, ToBoolean.      *)
(***************************************************************************)
S_undefined == <<"u", "n", "d", "e", "f", "i", "n", "e", "d">>

S_null == <<"n", "u", "l", "l">>

S_true == <<"t", "r", "u", "e">>

S_false == <<"f", "a", "l", "s", "e">>

S_object == <<"[", "o", "b", "j", "e", "c", "t", " ", "O", "b", "j", "e", "c", "t", "]">>

S_Infinity == <<"I", "n", "f", "i", "n", "i", "t", "y">>

WhiteSpace == {" ", "\t", "\n"}

IsPrefix(p, s) == Len(p) <= Len(s) /\ SubSeq(s, 1, Len(p)) = p

Drop(s, n) == SubSeq(s, n + 1, Len(s))

RECURSIVE TakeWhile(_, _)
TakeWhile(s, set) ==
    IF s = <<>> \/ s[1] \notin set THEN <<>>
    ELSE <<s[1]>> \o TakeWhile(Tail(s), set)

RECURSIVE TrimLeft(_)
TrimLeft(s) == IF s # <<>> /\ s[1] \in WhiteSpace THEN TrimLeft(Tail(s)) ELSE s

RECURSIVE TrimRight(_)
TrimRight(s) ==
    IF s # <<>> /\ s[Len(s)] \in WhiteSpace
    THEN TrimRight(SubSeq(s, 1, Len(s) - 1)) ELSE s

\* The exponent part at the head of b, if any: the exponent's value and the
\* unread rest.  digits are the exponent's digits, signLen its sign's length.
ExponentFrom(b, eneg, signLen, digits) ==
    IF digits = <<>> THEN [exp |-> 0, rest |-> b]
    ELSE [exp |-> (IF eneg THEN -1 ELSE 1) * DigitsToNat(digits, 10),
          rest |-> Drop(b, 1 + signLen + Len(digits))]

ExponentSigned(b, signed) ==
    ExponentFrom(b, signed /\ b[2] = "-", IF signed THEN 1 ELSE 0,
                 TakeWhile(Drop(b, IF signed THEN 2 ELSE 1), Digits))

ExponentOf(b) ==
    IF b # <<>> /\ b[1] \in {"e", "E"}
    THEN ExponentSigned(b, Len(b) >= 2 /\ b[2] \in {"+", "-"})
    ELSE [exp |-> 0, rest |-> b]

DecimalWithExponent(neg, int, frac, e) ==
    [ok |-> TRUE, d |-> DecimalToDouble(neg, int, frac, e.exp), rest |-> e.rest]

\* int and frac are the digits read; a starts at the character after int.
DecimalFraction(s, neg, int, a, hasDot, frac) ==
    IF int = <<>> /\ frac = <<>> THEN [ok |-> FALSE, d |-> NaN, rest |-> s]
    ELSE DecimalWithExponent(neg, int, frac,
            ExponentOf(IF hasDot THEN Drop(a, 1 + Len(frac)) ELSE a))

DecimalAfterInt(s, neg, int, a) ==
    IF a # <<>> /\ a[1] = "."
    THEN DecimalFraction(s, neg, int, a, TRUE, TakeWhile(Tail(a), Digits))
    ELSE DecimalFraction(s, neg, int, a, FALSE, <<>>)

DecimalInt(s, neg, body, int) == DecimalAfterInt(s, neg, int, Drop(body, Len(int)))

DecimalBody(s, neg, body) ==
    IF IsPrefix(S_Infinity, body)
    THEN [ok |-> TRUE, d |-> [Infinity EXCEPT !.s = IF neg THEN -1 ELSE 1],
          rest |-> Drop(body, Len(S_Infinity))]
    ELSE DecimalInt(s, neg, body, TakeWhile(body, Digits))

\* The longest prefix of s that is a StrDecimalLiteral (sign, digits, fraction,
\* exponent, or Infinity): ok, its value d, and the unread rest of s.
ParseDecimal(s) ==
    IF s # <<>> /\ s[1] \in {"+", "-"}
    THEN DecimalBody(s, s[1] = "-", Tail(s))
    ELSE DecimalBody(s, FALSE, s)

\* The radix of a 0x / 0o / 0b literal, 0 when s has no such prefix.
RadixOf(s) ==
    IF Len(s) < 3 \/ s[1] # "0" THEN 0
    ELSE IF s[2] \in {"x", "X"} THEN 16
    ELSE IF s[2] \in {"o", "O"} THEN 8
    ELSE IF s[2] \in {"b", "B"} THEN 2 ELSE 0

RadixLiteral(t, radix) ==
    IF \A j \in 3..Len(t) : t[j] \in HexDigits /\ DigitVal(t[j]) < radix
    THEN IntD(DigitsToNat(Drop(t, 2), radix)) ELSE NaN

WholeDecimal(p) == IF p.ok /\ p.rest = <<>> THEN p.d ELSE NaN

TrimmedToNumber(t) ==
    IF t = <<>> THEN IntD(0)
    ELSE IF RadixOf(t) # 0 THEN RadixLiteral(t, RadixOf(t))
    ELSE WholeDecimal(ParseDecimal(t))

\* ToNumber applied to a string (StringToNumber): the whole trimmed string
\* must be a numeric literal; an empty string is +0; anything else is NaN.
StringToNumber(s) == TrimmedToNumber(TrimRight(TrimLeft(s)))

ToNumber(v) ==
    CASE v.t = "undefined" -> NaN
      [] v.t = "null" -> IntD(0)
      [] v.t = "boolean" -> IntD(IF v.v THEN 1 ELSE 0)
      [] v.t = "number" -> v.v
      [] v.t = "string" -> StringToNumber(v.v)
      [] v.t = "object" -> NaN

ToBoolean(v) ==
    CASE v.t = "undefined" -> FALSE
      [] v.t = "null" -> FALSE
      [] v.t = "boolean" -> v.v
      [] v.t = "number" -> ~(v.v.k = "nan" \/ IsZero(v.v))
      [] v.t = "string" -> v.v # <<>>
      [] v.t = "object" -> TRUE

\* JSToString (the abstract operation ToString) of the values the handlers concatenate or interpolate.  Numbers
\* reach the handlers only as the amount, which is never made a string except
\* by parseFloat, below.
JSToString(v) ==
    CASE v.t = "undefined" -> S_undefined
      [] v.t = "null" -> S_null
      [] v.t = "boolean" -> IF v.v THEN S_true ELSE S_false
      [] v.t = "string" -> v.v
      [] v.t = "object" -> S_object

\* The global isNaN(v): ToNumber(v) is NaN.
IsNaN(v) == ToNumber(v).k = "nan"

\* v <= 0: ToNumber(v) compared with 0 (false when it is NaN).
NotAboveZero(d) == d.k # "nan" /\ (d.s = -1 \/ IsZero(d))

LessEqZero(v) == NotAboveZero(ToNumber(v))

\* parseFloat(v): JSToString(v), then the longest numeric prefix after leading
\* white space.  For a number, Number::toString emits the shortest digits that
\* read back as the same double, so parseFloat returns it unchanged.
ParseFloat(v) ==
    IF v.t = "number" THEN v.v ELSE ParseDecimal(TrimLeft(JSToString(v))).d

\* a || b
OrElse(a, b) == IF ToBoolean(a) THEN a ELSE b

\* A fixed string literal of the source, kept as one opaque block.
Lit(text) == Str(<<text>>)

\* An object literal { k: v, ... } as JSON carries it: a property whose value
\* is undefined is absent (JSON.parse never yields one, res.json drops it).
MkObj(rec) == Obj([k \in {x \in DOMAIN rec : rec[x] # Undef} |-> rec[k]])

EmptyObj == Obj([k \in {} |-> Undef])

(***************************************************************************)
(* crypto.createHmac("sha256", key).update(msg).digest("hex").  The digest *)
(* is kept symbolic: a string that determines (key, msg) and that no       *)
(* other pair yields (SHA-256 taken as collision-free).                    *)
(***************************************************************************)
HmacSha256Hex(key, msg) == <<"hmac-sha256(">> \o key \o <<")(">> \o msg \o <<")">>

(***************************************************************************)
(* The state: which server file runs, its environment, the process, and    *)
(* the requests in flight.                                                 *)
(***************************************************************************)
VARIABLES build, env, proc, req

vars == <<build, env, proc, req>>

\* Requests the server handles at once.
MaxInFlight == 1

Slots == 1..MaxInFlight

\* Requests in flight at once when handlers are compared across requests.
MaxInterleaved == 2

Builds == {"index.js", "part_000"}

KeyId == Lit("rzp_test_key")

Secret == <<"s", "3", "c", "r", "3", "t">>

OtherSecret == <<"o", "t", "h", "e", "r">>

EmailUser == Lit("shop@example.com")

Envs ==
    [RAZORPAY_KEY_ID : {Undef, KeyId},
     RAZORPAY_KEY_SECRET : {Undef, Str(Secret)},
     EMAIL_USER : {EmailUser}]

\* Date.now() / new Date(): the clock reading a handler sees.
Timestamps == {"1700000000000"}

Idle ==
    [pc |-> "idle", route |-> "none", body |-> Undef,
     calls |-> <<>>, settled |-> <<>>, responses |-> <<>>]

\* res.status(status).json(json)
Respond(rq, status, json) ==
    [rq EXCEPT !.pc = "responded",
               !.responses = Append(@, [status |-> status, json |-> json])]

\* The handler starts an outbound call and suspends on its promise.
Await(rq, api, args) ==
    [rq EXCEPT !.pc = "awaiting",
               !.calls = Append(@, [api |-> api, args |-> args])]

\* An error leaves the async handler: its promise rejects, no response is sent.
Escape(rq) == [rq EXCEPT !.pc = "escaped"]

Arrive(route, body) == [Idle EXCEPT !.route = route, !.body = body]

(***************************************************************************)
(* POST /create-order                                                      *)
(***************************************************************************)
\* !process.env.RAZORPAY_KEY_ID || !process.env.RAZORPAY_KEY_SECRET
CredentialsMissing(e) ==
    ~ToBoolean(e.RAZORPAY_KEY_ID) \/ ~ToBoolean(e.RAZORPAY_KEY_SECRET)

\* !req.body || Object.keys(req.body).length === 0
BodyIsEmpty(body) == ~ToBoolean(body) \/ DOMAIN body.v = {}

\* !amount || isNaN(amount) || amount <= 0
AmountInvalid(amount) ==
    ~ToBoolean(amount) \/ IsNaN(amount) \/ LessEqZero(amount)

\* Math.round(parseFloat(amount) * 100)
AmountInPaise(amount) == MathRound(Times100(ParseFloat(amount)))

\* amount * 100, as the second server file computes the minor-unit amount.
AmountTimes100(amount) == Times100(ToNumber(amount))

OrderDefaults(body, now) ==
    [currency |-> OrElse(Get(body, "currency"), Lit("INR")),
     receipt |-> OrElse(Get(body, "receipt"), Str(<<"receipt_", now>>)),
     notes |-> OrElse(Get(body, "notes"), EmptyObj)]

OrderOptions(body, now) ==
    LET d == OrderDefaults(body, now)
    IN MkObj([amount |-> Num(AmountInPaise(Get(body, "amount"))),
              currency |-> d.currency, receipt |-> d.receipt, notes |-> d.notes])

OrderOptionsPart000(body, now) ==
    LET d == OrderDefaults(body, now)
    IN MkObj([amount |-> Num(AmountTimes100(Get(body, "amount"))),
              currency |-> d.currency, receipt |-> d.receipt, notes |-> d.notes])

\* The handler of src/index.js up to its first await or its response.
HandleCreateOrder(e, body, now) ==
    LET rq == Arrive("/create-order", body)
        amount == Get(body, "amount")
    IN IF CredentialsMissing(e)
       THEN Respond(rq, 500,
                MkObj([success |-> Bool(FALSE),
                       message |-> Lit("Razorpay configuration error"),
                       error |-> Lit("Missing credentials")]))
       ELSE IF BodyIsEmpty(body)
       THEN Respond(rq, 400,
                MkObj([success |-> Bool(FALSE),
                       message |-> Lit("Invalid request"),
                       error |-> Lit("Request body is empty")]))
       ELSE IF AmountInvalid(amount)
       THEN Respond(rq, 400,
                MkObj([success |-> Bool(FALSE),
                       message |-> Lit("Invalid amount"),
                       error |-> Lit("Amount must be a positive number"),
                       receivedAmount |-> amount]))
       ELSE Await(rq, "razorpay.orders.create", OrderOptions(body, now))

\* The handler of the second server file: no check precedes the gateway call.
HandleCreateOrderPart000(e, body, now) ==
    Await(Arrive("/create-order", body), "razorpay.orders.create",
          OrderOptionsPart000(body, now))

\* Mutant: the public key id is left out of the success response.
OrderCreatedResponse_NoKey(e, order) ==
    MkObj([success |-> Bool(TRUE), order |-> order])

\* The 200 response once razorpay.orders.create resolves with order.
OrderCreatedResponse(e, order) ==
    MkObj([success |-> Bool(TRUE), order |-> order, key |-> e.RAZORPAY_KEY_ID])

\* The 500 response of the catch block; only src/index.js adds debug.
OrderFailedResponse(b, err, now) ==
    MkObj([success |-> Bool(FALSE),
           message |-> Lit("Failed to create order"),
           error |-> Get(err, "message"),
           debug |-> IF b = "index.js"
                     THEN MkObj([timestamp |-> Str(<<"iso:", now>>),
                                 requestId |-> Str(<<now>>)])
                     ELSE Undef])

(***************************************************************************)
(* POST /verify-payment                                                    *)
(***************************************************************************)
\* Mutant: the delimiter left out of the signed payload.
SignedPayload_NoDelimiter(orderId, paymentId) ==
    JSToString(orderId) \o JSToString(paymentId)

\* razorpay_order_id + "|" + razorpay_payment_id
SignedPayload(orderId, paymentId) ==
    JSToString(orderId) \o <<"|">> \o JSToString(paymentId)

\* Mutant: a module-level replay cache, a payment id accepted for a request
\* still held is refused the second time.
IsAuthentic_ReplayCache(secret, orderId, paymentId, signature) ==
    /\ Str(HmacSha256Hex(secret.v, JSToString(orderId) \o <<"|">>
                                    \o JSToString(paymentId))) = signature
    /\ ~\E r \in DOMAIN req :
          /\ req[r].route = "/verify-payment"
          /\ req[r].responses # <<>>
          /\ req[r].responses[1].status = 200
          /\ Get(req[r].body, "razorpay_payment_id") = paymentId

\* expectedSignature === razorpay_signature
IsAuthentic(secret, orderId, paymentId, signature) ==
    Str(HmacSha256Hex(secret.v, SignedPayload(orderId, paymentId))) = signature

HandleVerifyPayment(e, body) ==
    LET rq == Arrive("/verify-payment", body)
        orderId == Get(body, "razorpay_order_id")
        paymentId == Get(body, "razorpay_payment_id")
        signature == Get(body, "razorpay_signature")
    IN IF e.RAZORPAY_KEY_SECRET.t # "string"
       THEN \* createHmac throws on an undefined key; the catch block answers
            Respond(rq, 500,
                MkObj([success |-> Bool(FALSE),
                       message |-> Lit("Internal server error during verification"),
                       error |-> Lit("The \"key\" argument must be of type string")]))
       ELSE IF IsAuthentic(e.RAZORPAY_KEY_SECRET, orderId, paymentId, signature)
       THEN Respond(rq, 200,
                MkObj([success |-> Bool(TRUE),
                       message |-> Lit("Payment verification successful"),
                       orderId |-> orderId, paymentId |-> paymentId]))
       ELSE Respond(rq, 400,
                MkObj([success |-> Bool(FALSE),
                       message |-> Lit("Payment verification failed")]))

(***************************************************************************)
(* POST /agent_to_customer                                                 *)
(***************************************************************************)
\* Mutant: the precedence of the request log line, top-level name first.
ResolvedAgentName_TopLevelFirst(orderDetails, agentName) ==
    OrElse(OrElse(agentName,
                  IF ThrowsOnRead(orderDetails) THEN Undef
                  ELSE Get(orderDetails, "agentName")),
           Lit("Call Center Agent"))

\* (orderDetails && orderDetails.agentName) || agentName || 'Call Center Agent'
ResolvedAgentName(orderDetails, agentName) ==
    OrElse(OrElse(IF ToBoolean(orderDetails)
                  THEN Get(orderDetails, "agentName") ELSE orderDetails,
                  agentName),
           Lit("Call Center Agent"))

\* The values interpolated into the template, each by ToString.
HtmlContent(orderDetails, customerDetails, productName, agentName) ==
    LET cur == JSToString(OrElse(Get(orderDetails, "currency"), Lit("Rs")))
    IN MkObj([greeting |-> Str(JSToString(Get(customerDetails, "firstName"))),
              orderNumber |-> Str(JSToString(Get(orderDetails, "orderNumber"))),
              totalAmount |-> Str(cur \o <<" ">>
                                  \o JSToString(Get(orderDetails, "totalAmount"))),
              advancePaid |-> Str(cur \o <<" ">>
                                  \o JSToString(Get(orderDetails, "Advance_Amount"))),
              paymentMethod |-> Str(JSToString(Get(orderDetails, "paymentMethod"))),
              agentName |-> Str(JSToString(ResolvedAgentName(orderDetails, agentName))),
              product |-> Str(JSToString(productName))])

MailOptions(e, body) ==
    LET orderDetails == Get(body, "orderDetails")
    IN MkObj([from |-> e.EMAIL_USER,
              to |-> Get(body, "customerEmail"),
              cc |-> e.EMAIL_USER,
              subject |-> Str(<<"Order Confirmation #">>
                              \o JSToString(Get(orderDetails, "orderNumber"))),
              html |-> HtmlContent(orderDetails, Get(body, "customerDetails"),
                                   Get(body, "productName"), Get(body, "agentName"))])

\* Mutant: only an undefined customerEmail counts as missing.
CustomerEmailMissing_OnlyUndefined(customerEmail) == customerEmail = Undef

\* !customerEmail
CustomerEmailMissing(customerEmail) == ~ToBoolean(customerEmail)

\* Mutant: the return after the 400 response is lost, the handler goes on.
HandleAgentToCustomer_NoReturn(e, body) ==
    LET rq == IF CustomerEmailMissing(Get(body, "customerEmail"))
              THEN Respond(Arrive("/agent_to_customer", body), 400,
                       MkObj([success |-> Bool(FALSE),
                              message |-> Lit("Customer email is required")]))
              ELSE Arrive("/agent_to_customer", body)
    IN IF ThrowsOnRead(Get(body, "orderDetails"))
          \/ ThrowsOnRead(Get(body, "customerDetails"))
       THEN Escape(rq)
       ELSE Await(rq, "transporter.sendMail", MailOptions(e, body))

\* The handler up to its first await or its response.
HandleAgentToCustomer(e, body) ==
    LET rq == Arrive("/agent_to_customer", body)
    IN IF CustomerEmailMissing(Get(body, "customerEmail"))
       THEN Respond(rq, 400,
                MkObj([success |-> Bool(FALSE),
                       message |-> Lit("Customer email is required")]))
       ELSE IF ThrowsOnRead(Get(body, "orderDetails"))
       THEN Escape(rq)     \* orderDetails.orderNumber, before the try block
       ELSE IF ThrowsOnRead(Get(body, "customerDetails"))
       THEN Escape(rq)     \* customerDetails.firstName, before the try block
       ELSE Await(rq, "transporter.sendMail", MailOptions(e, body))

MailSentResponse(info) ==
    MkObj([success |-> Bool(TRUE),
           message |-> Lit("Confirmation email sent successfully!")])

\* Mutant: the error's message is not passed on.
MailFailedResponse_NoError(err) ==
    MkObj([success |-> Bool(FALSE),
           message |-> Lit("Failed to send confirmation email")])

MailFailedResponse(err) ==
    MkObj([success |-> Bool(FALSE),
           message |-> Lit("Failed to send confirmation email"),
           error |-> Get(err, "message")])

(***************************************************************************)
(* Request bodies (req.body after bodyParser.json()) and the collaborators'*)
(* answers.                                                                *)
(***************************************************************************)
\* A JSON number literal int.frac of a request body, as JSON.parse reads it.
JsonNumber(neg, int, frac) == Num(DecimalToDouble(neg, int, frac, 0))

NumericAmounts ==
    {JsonNumber(FALSE, <<"1", "0", "0">>, <<>>),
     JsonNumber(FALSE, <<"4", "9", "9">>, <<"9", "9">>),
     JsonNumber(FALSE, <<"1">>, <<"0", "0", "5">>),
     JsonNumber(FALSE, <<"0">>, <<"0", "1", "5">>),
     JsonNumber(FALSE, <<"0">>, <<"1", "4", "5">>),
     Str(<<"4", "9", "9", ".", "9", "9">>),
     Str(<<"1", "e", "2">>),
     Str(<<" ", "4", "2", " ">>),
     Str(<<"0", "x", "1", "0">>)}

OtherAmounts ==
    {Undef, Null, Bool(FALSE), Bool(TRUE), EmptyObj,
     JsonNumber(FALSE, <<"0">>, <<>>),
     JsonNumber(TRUE, <<"5">>, <<>>),
     JsonNumber(TRUE, <<"0">>, <<"5">>),
     Str(<<>>), Str(<<" ">>), Str(<<"a", "b", "c">>),
     Str(<<"1", "2", "a", "b", "c">>), Str(<<"-", "3">>)}

AmountInputs == NumericAmounts \cup OtherAmounts

CreateOrderBodies ==
    {MkObj([amount |-> a, currency |-> Undef, receipt |-> Undef, notes |-> Undef]) :
        a \in AmountInputs}
    \cup
    {MkObj([amount |-> a, currency |-> Lit("USD"), receipt |-> Lit("rcpt_7"),
            notes |-> MkObj([sku |-> Lit("A1")])]) :
        a \in {Undef, Str(<<"a", "b", "c">>),
               JsonNumber(FALSE, <<"1", "0", "0">>, <<>>)}}

OrderIds == {Undef, Str(<<"o">>), Str(<<"o", "|", "p">>)}

PaymentIds == {Str(<<"q">>), Str(<<"p", "|", "q">>)}

\* The signatures a client may send: none, junk, the digest of every payload
\* under the configured secret, and near misses (another key, the two ids
\* swapped, the delimiter left out).
Signatures ==
    {Undef, Str(<<>>), Str(<<"d", "e", "a", "d">>)}
    \cup {Str(HmacSha256Hex(Secret, JSToString(o) \o <<"|">> \o JSToString(p))) :
            o \in OrderIds, p \in PaymentIds}
    \cup {Str(HmacSha256Hex(OtherSecret, <<"o", "|", "q">>)),
          Str(HmacSha256Hex(Secret, <<"q", "|", "o">>)),
          Str(HmacSha256Hex(Secret, <<"o", "q">>))}

VerifyBodies ==
    {MkObj([razorpay_order_id |-> o, razorpay_payment_id |-> p,
            razorpay_signature |-> g]) :
        o \in OrderIds, p \in PaymentIds, g \in Signatures}

OrderDetailsInputs ==
    {Undef, Null, EmptyObj,
     MkObj([orderNumber |-> Lit("1001"), totalAmount |-> Lit("500"),
            Advance_Amount |-> Lit("100"), paymentMethod |-> Lit("COD"),
            agentName |-> Lit("X")]),
     MkObj([orderNumber |-> Lit("1002"), currency |-> Lit("$"),
            agentName |-> Str(<<>>)])}

ConfirmationBodies ==
    {MkObj([customerEmail |-> m, orderDetails |-> od, customerDetails |-> cd,
            productName |-> Lit("Widget"), agentName |-> an]) :
        m \in {Undef, Str(<<>>), Lit("buyer@example.com")},
        od \in OrderDetailsInputs,
        cd \in {Undef, MkObj([firstName |-> Lit("Asha")])},
        an \in {Undef, Lit("Y")}}

\* What razorpay.orders.create may resolve with for the options it was given.
GatewayOrders(options) ==
    {MkObj([id |-> Lit("order_N1"), entity |-> Lit("order"),
            amount |-> Get(options, "amount"),
            currency |-> Get(options, "currency"),
            receipt |-> Get(options, "receipt"), status |-> Lit("created")])}

\* What it may reject with: an Error, or the SDK's plain error object.
GatewayErrors ==
    {MkObj([message |-> Lit("connect ETIMEDOUT")]),
     MkObj([statusCode |-> Lit("400"),
            error |-> MkObj([code |-> Lit("BAD_REQUEST_ERROR"),
                             description |-> Lit("Authentication failed")])])}

MailInfos ==
    {MkObj([messageId |-> Lit("<1@mail>"), response |-> Lit("250 OK")]),
     MkObj([messageId |-> Lit("<2@mail>"), response |-> Lit("250 OK")])}

MailErrors == {MkObj([message |-> Lit("Invalid login"), code |-> Lit("EAUTH")])}

(***************************************************************************)
(* The state machine.                                                      *)
(***************************************************************************)
Init ==
    /\ build \in Builds
    /\ env \in Envs
    /\ proc = "loading"
    /\ req = [r \in Slots |-> Idle]

\* The same start with room for MaxInterleaved requests in flight.
InitInterleaved ==
    /\ build \in Builds
    /\ env \in Envs
    /\ proc = "loading"
    /\ req = [r \in 1..MaxInterleaved |-> Idle]

\* Module load: new Razorpay({key_id, key_secret}), createTransport, listen.
\* The SDK's constructor is not in this repository: given an undefined key_id
\* it may throw, and an exception at module level ends the process.
LoadModule ==
    /\ proc = "loading"
    /\ \/ proc' = "listening"
       \/ /\ ~ToBoolean(env.RAZORPAY_KEY_ID)
          /\ proc' = "crashed"
    /\ UNCHANGED <<build, env, req>>

Accepting(r) == proc = "listening" /\ req[r].pc = "idle"

CreateOrder(r) ==
    /\ Accepting(r)
    /\ build = "index.js"
    /\ \E body \in CreateOrderBodies, now \in Timestamps :
          req' = [req EXCEPT ![r] = HandleCreateOrder(env, body, now)]
    /\ UNCHANGED <<build, env, proc>>

CreateOrderPart000(r) ==
    /\ Accepting(r)
    /\ build = "part_000"
    /\ \E body \in CreateOrderBodies, now \in Timestamps :
          req' = [req EXCEPT ![r] = HandleCreateOrderPart000(env, body, now)]
    /\ UNCHANGED <<build, env, proc>>

Settle(rq, kind, value) ==
    [rq EXCEPT !.settled = Append(@, [kind |-> kind, value |-> value])]

Awaiting(r, route) ==
    proc = "listening" /\ req[r].pc = "awaiting" /\ req[r].route = route

\* const order = await razorpay.orders.create(options) resolves.
OrderCreated(r) ==
    /\ Awaiting(r, "/create-order")
    /\ \E order \in GatewayOrders(req[r].calls[Len(req[r].calls)].args) :
          req' = [req EXCEPT ![r] =
                    Respond(Settle(@, "resolved", order), 200,
                            OrderCreatedResponse(env, order))]
    /\ UNCHANGED <<build, env, proc>>

\* ... rejects: the catch block.
OrderRejected(r) ==
    /\ Awaiting(r, "/create-order")
    /\ \E err \in GatewayErrors, now \in Timestamps :
          req' = [req EXCEPT ![r] =
                    Respond(Settle(@, "rejected", err), 500,
                            OrderFailedResponse(build, err, now))]
    /\ UNCHANGED <<build, env, proc>>

VerifyPayment(r) ==
    /\ Accepting(r)
    /\ \E body \in VerifyBodies :
          req' = [req EXCEPT ![r] = HandleVerifyPayment(env, body)]
    /\ UNCHANGED <<build, env, proc>>

AgentToCustomer(r) ==
    /\ Accepting(r)
    /\ \E body \in ConfirmationBodies :
          req' = [req EXCEPT ![r] = HandleAgentToCustomer(env, body)]
    /\ UNCHANGED <<build, env, proc>>

\* const info = await transporter.sendMail(mailOptions) resolves.
MailSent(r) ==
    /\ Awaiting(r, "/agent_to_customer")
    /\ \E info \in MailInfos :
          req' = [req EXCEPT ![r] =
                    Respond(Settle(@, "resolved", info), 200, MailSentResponse(info))]
    /\ UNCHANGED <<build, env, proc>>

MailFailed(r) ==
    /\ Awaiting(r, "/agent_to_customer")
    /\ \E err \in MailErrors :
          req' = [req EXCEPT ![r] =
                    Respond(Settle(@, "rejected", err), 500, MailFailedResponse(err))]
    /\ UNCHANGED <<build, env, proc>>

\* The exchange is over (the response is flushed, or the client gives up on a
\* request that will never be answered); the slot serves the next request.
Close(r) ==
    /\ proc = "listening"
    /\ req[r].pc \in {"responded", "escaped"}
    /\ req' = [req EXCEPT ![r] = Idle]
    /\ UNCHANGED <<build, env, proc>>

\* An unhandled promise rejection ends the process under Node's default
\* --unhandled-rejections=throw (Node 15 and later).
UnhandledRejection ==
    /\ proc = "listening"
    /\ \E r \in DOMAIN req : req[r].pc = "escaped"
    /\ proc' = "crashed"
    /\ UNCHANGED <<build, env, req>>

Next ==
    \/ LoadModule
    \/ UnhandledRejection
    \/ \E r \in DOMAIN req :
          \/ CreateOrder(r)
          \/ CreateOrderPart000(r)
          \/ OrderCreated(r)
          \/ OrderRejected(r)
          \/ VerifyPayment(r)
          \/ AgentToCustomer(r)
          \/ MailSent(r)
          \/ MailFailed(r)
          \/ Close(r)

Spec == Init /\ [][Next]_vars

Interleaved == InitInterleaved /\ [][Next]_vars

(***************************************************************************)
(* Properties.                                                             *)
(***************************************************************************)
Handled(r, route) == req[r].route = route /\ req[r].pc # "idle"

Answered(r) == req[r].pc = "responded" /\ Len(req[r].responses) = 1

Status(r) == req[r].responses[1].status

Json(r) == req[r].responses[1].json

SecretConfigured == env.RAZORPAY_KEY_SECRET.t = "string"

CredentialsConfigured == env.RAZORPAY_KEY_ID.t = "string" /\ SecretConfigured

\* The signature the gateway would issue for the request in slot r.
GatewaySignature(r) ==
    Str(HmacSha256Hex(env.RAZORPAY_KEY_SECRET.v,
                      JSToString(Get(req[r].body, "razorpay_order_id")) \o <<"|">>
                      \o JSToString(Get(req[r].body, "razorpay_payment_id"))))

\* C1: with the secret configured, a /verify-payment request is answered 200
\* (success) exactly when its signature is the hex HMAC-SHA256 of
\* orderId + "|" + paymentId under the secret, and 400 (failure) for every
\* other signature, a missing or empty one included.
C1_VerifyIffSignatureMatches ==
    \A r \in Slots :
        (Handled(r, "/verify-payment") /\ SecretConfigured) =>
            /\ Answered(r)
            /\ IF Get(req[r].body, "razorpay_signature") = GatewaySignature(r)
               THEN Status(r) = 200 /\ Get(Json(r), "success") = Bool(TRUE)
               ELSE Status(r) = 400 /\ Get(Json(r), "success") = Bool(FALSE)

\* An order id that itself holds the delimiter ("o|p"), accepted on the
\* signature the gateway issues for it.
C1_Witness ==
    \E r \in Slots :
        /\ Handled(r, "/verify-payment") /\ SecretConfigured
        /\ Get(req[r].body, "razorpay_order_id") = Str(<<"o", "|", "p">>)
        /\ Get(req[r].body, "razorpay_signature") = GatewaySignature(r)
        /\ Answered(r) /\ Status(r) = 200

\* The amount of the request in slot r is missing, not a number, or <= 0.
AmountMissingOrNotPositive(r) ==
    LET a == Get(req[r].body, "amount")
    IN \/ a = Undef
       \/ a.t \notin {"number", "string"}
       \/ ToNumber(a).k = "nan"
       \/ ToNumber(a).s = -1
       \/ IsZero(ToNumber(a))

\* C2: a /create-order request whose amount is missing, non-numeric or <= 0
\* is answered 400 and razorpay.orders.create is never called for it (stated
\* for a server whose credentials are configured).
C2_InvalidAmountRejected ==
    \A r \in Slots :
        (/\ Handled(r, "/create-order")
         /\ CredentialsConfigured
         /\ AmountMissingOrNotPositive(r)) =>
            /\ req[r].calls = <<>>
            /\ Answered(r)
            /\ Status(r) = 400

\* The nearest integer to a non-negative exact value, a tie going up.
NearestInteger(x) == x.i + x.f[1]

\* C3: for a positive numeric amount A that reaches the gateway, the amount
\* sent is the integer round(A x 100), the product read exactly or as the
\* double JavaScript computes; currency defaults to "INR".
C3_AmountSentIsRoundedPaise ==
    \A r \in Slots :
        (/\ Handled(r, "/create-order")
         /\ req[r].calls # <<>>
         /\ Get(req[r].body, "amount").t \in {"number", "string"}
         /\ ToNumber(Get(req[r].body, "amount")).k = "fin"
         /\ ToNumber(Get(req[r].body, "amount")).s = 1
         /\ ~IsZero(ToNumber(Get(req[r].body, "amount")))) =>
            LET A == ToNumber(Get(req[r].body, "amount"))
                sent == Get(req[r].calls[1].args, "amount").v
            IN /\ IsInteger(sent)
               /\ sent.s = 1
               /\ sent.i \in {NearestInteger(ExactTimes(A, 100)),
                              NearestInteger(Times100(A))}
               /\ Get(req[r].body, "currency") = Undef =>
                    Get(req[r].calls[1].args, "currency") = Lit("INR")

\* C4: no error raised while handling a request leaves the handler: there is
\* never a request whose handler's promise rejected without a response.
C4_NoErrorEscapes == \A r \in Slots : req[r].pc # "escaped"

\* C5: with the key id or the key secret absent, every /create-order request
\* is answered 500 "Razorpay configuration error" and no gateway call is made
\* for it.
C5_MissingCredentialsAnswered ==
    \A r \in Slots :
        (Handled(r, "/create-order") /\ ~CredentialsConfigured) =>
            /\ req[r].calls = <<>>
            /\ Answered(r)
            /\ Status(r) = 500
            /\ Get(Json(r), "message") = Lit("Razorpay configuration error")

\* C6: an /agent_to_customer request without customerEmail (absent, null or
\* empty) is answered 400 and transporter.sendMail is never called for it,
\* whatever its other fields are.
C6_NoEmailNoSend ==
    \A r \in Slots :
        (/\ Handled(r, "/agent_to_customer")
         /\ Get(req[r].body, "customerEmail") \in {Undef, Null, Str(<<>>)}) =>
            /\ req[r].calls = <<>>
            /\ Answered(r)
            /\ Status(r) = 400

\* A request with neither e-mail nor orderDetails nor customerDetails, refused.
C6_Witness ==
    \E r \in Slots :
        /\ Handled(r, "/agent_to_customer")
        /\ Get(req[r].body, "customerEmail") = Undef
        /\ Get(req[r].body, "orderDetails") = Undef
        /\ Get(req[r].body, "customerDetails") = Undef
        /\ Answered(r) /\ Status(r) = 400 /\ req[r].calls = <<>>

\* A name is present when it is a non-empty string.
NamePresent(x) == x.t = "string" /\ x.v # <<>>

\* C7: the agent name rendered into the e-mail is orderDetails.agentName when
\* present, otherwise the top-level agentName when present, otherwise
\* 'Call Center Agent'.
C7_AgentNamePrecedence ==
    \A r \in Slots :
        (Handled(r, "/agent_to_customer") /\ req[r].calls # <<>>) =>
            LET inner == Get(Get(req[r].body, "orderDetails"), "agentName")
                outer == Get(req[r].body, "agentName")
                rendered == Get(Get(req[r].calls[1].args, "html"), "agentName")
            IN rendered = IF NamePresent(inner) THEN inner
                          ELSE IF NamePresent(outer) THEN outer
                          ELSE Lit("Call Center Agent")

\* orderDetails.agentName = "X" and agentName = "Y": "X" is rendered.
C7_Witness ==
    \E r \in Slots :
        /\ Handled(r, "/agent_to_customer") /\ req[r].calls # <<>>
        /\ Get(Get(req[r].body, "orderDetails"), "agentName") = Lit("X")
        /\ Get(req[r].body, "agentName") = Lit("Y")
        /\ Get(Get(req[r].calls[1].args, "html"), "agentName") = Lit("X")

Settled(r, kind) == req[r].settled # <<>> /\ req[r].settled[1].kind = kind

Outcome(r) == req[r].settled[1].value

\* C8 as stated: once the send settles, an accepted message is answered 200
\* carrying info.messageId, a failed send 500 carrying the error's message.
C8_ResponseCarriesMessageId ==
    \A r \in Slots :
        (Handled(r, "/agent_to_customer") /\ req[r].settled # <<>>) =>
            /\ Answered(r)
            /\ Settled(r, "resolved") =>
                /\ Status(r) = 200
                /\ \E k \in DOMAIN Json(r).v :
                      Json(r).v[k] = Get(Outcome(r), "messageId")
            /\ Settled(r, "rejected") =>
                /\ Status(r) = 500
                /\ Get(Json(r), "error") = Get(Outcome(r), "message")

\* C8 amended: an accepted message is answered 200 with exactly success: true
\* and the fixed message (the message identifier is not in the response); a
\* failed send is answered 500 carrying the error's message.
C8_SendOutcomeReported ==
    \A r \in Slots :
        (Handled(r, "/agent_to_customer") /\ req[r].settled # <<>>) =>
            /\ Answered(r)
            /\ Settled(r, "resolved") =>
                /\ Status(r) = 200
                /\ Json(r) = MkObj([success |-> Bool(TRUE),
                       message |-> Lit("Confirmation email sent successfully!")])
            /\ Settled(r, "rejected") =>
                /\ Status(r) = 500
                /\ Get(Json(r), "success") = Bool(FALSE)
                /\ Get(Json(r), "error") = Get(Outcome(r), "message")
                /\ Get(Json(r), "error") # Undef

\* A send the mail server accepted as <2@mail>, answered 200.
C8_Witness ==
    \E r \in Slots :
        /\ Handled(r, "/agent_to_customer") /\ Settled(r, "resolved")
        /\ Get(Outcome(r), "messageId") = Lit("<2@mail>")
        /\ Answered(r) /\ Status(r) = 200

\* C9: with credentials configured, once razorpay.orders.create settles:
\* resolved, the answer is 200 with success true, the gateway's order object
\* unchanged and key = the configured key id; rejected, it is 500 with
\* success false, "Failed to create order", the error's message, and neither
\* order nor key.
C9_OrderOutcomeReported ==
    \A r \in Slots :
        (/\ Handled(r, "/create-order") /\ CredentialsConfigured
         /\ req[r].settled # <<>>) =>
            /\ Answered(r)
            /\ Settled(r, "resolved") =>
                /\ Status(r) = 200
                /\ Get(Json(r), "success") = Bool(TRUE)
                /\ Get(Json(r), "order") = Outcome(r)
                /\ Get(Json(r), "key") = env.RAZORPAY_KEY_ID
            /\ Settled(r, "rejected") =>
                /\ Status(r) = 500
                /\ Get(Json(r), "success") = Bool(FALSE)
                /\ Get(Json(r), "message") = Lit("Failed to create order")
                /\ Get(Json(r), "error") = Get(Outcome(r), "message")
                /\ {"order", "key"} \cap DOMAIN Json(r).v = {}

\* The gateway call rejected with an Error, answered 500 with its message.
C9_Witness ==
    \E r \in Slots :
        /\ Handled(r, "/create-order") /\ CredentialsConfigured
        /\ Settled(r, "rejected")
        /\ Get(Outcome(r), "message") = Lit("connect ETIMEDOUT")
        /\ Answered(r) /\ Status(r) = 500
        /\ Get(Json(r), "error") = Lit("connect ETIMEDOUT")

\* C10: a request makes at most one outbound call and gets at most one
\* response; after its call failed it has made that one call only and is
\* answered by one error response.
C10_OneCallOneResponse ==
    \A r \in Slots :
        /\ Len(req[r].calls) <= 1
        /\ Len(req[r].responses) <= 1
        /\ Len(req[r].settled) <= Len(req[r].calls)
        /\ Settled(r, "rejected") =>
            /\ Len(req[r].calls) = 1
            /\ Answered(r)
            /\ Status(r) = 500
            /\ Get(Json(r), "success") = Bool(FALSE)

\* A request whose single outbound call failed, answered once with 500.
C10_Witness ==
    \E r \in Slots :
        /\ Settled(r, "rejected")
        /\ Len(req[r].calls) = 1 /\ Len(req[r].responses) = 1
        /\ Status(r) = 500

\* The request in slot r carries the same order id, payment id and signature
\* as the one in slot q.
SameVerifyInputs(r, q) ==
    /\ Get(req[r].body, "razorpay_order_id") = Get(req[q].body, "razorpay_order_id")
    /\ Get(req[r].body, "razorpay_payment_id")
         = Get(req[q].body, "razorpay_payment_id")
    /\ Get(req[r].body, "razorpay_signature")
         = Get(req[q].body, "razorpay_signature")

====
